---- MODULE Spec2Model ----
(***************************************************************************)
(* ckanext-doi: the IPackageController handlers of DOIPlugin               *)
(* (src/ckanext/doi/plugin.py) as a state machine.                         *)
(*                                                                         *)
(* State: the DOI table, the Dataset Store read through package_show, the  *)
(* metadata the Registration Service (DataCite) holds per dataset, and a   *)
(* record of the most recent handler invocation (its arguments, the DOI    *)
(* row it loaded, what it returned and the side effects it issued, in      *)
(* order).  Handlers run to completion inside one request, so each is one  *)
(* action.                                                                 *)
(*                                                                         *)
(* Python values: a dict is a function whose DOMAIN is its key set, None   *)
(* is the record None below, the empty string / a missing text is 0 and a  *)
(* non-empty text is a positive number.                                    *)
(***************************************************************************)
EXTENDS Integers, Sequences, FiniteSets, TLC

(* ---- bounds of the model ---- *)
NumIdentifiers == 2
NumTitles == 2

\* package ids
Datasets == {"d1"}
\* DOI strings; 0 is the empty string
Identifiers == 1..NumIdentifiers
\* title texts; 0 is a missing title
Titles == 1..NumTitles
\* author texts
Authors == {1}

None == [none |-> TRUE]
\* a null `published` column
Null == "null"
Timestamp == "timestamp"

VARIABLES
    doi_table,   \* rows of the doi table: [package_id, identifier, published]
    packages,    \* Dataset Store: package id -> snapshot package_show returns, or None
    datacite,    \* Registration Service: package id -> metadata last sent, or None
    call,        \* most recent invocation: handler, pkg_dict passed in, DOI row loaded
    result,      \* "return" or the name of the error that propagated
    returned,    \* the pkg_dict as the handler left it
    events       \* side effects of the invocation, in program order

vars == <<doi_table, packages, datacite, call, result, returned, events>>

(* ---- Python dict helpers ---- *)
has_key(d, k) == k \in DOMAIN d
get(d, k, default) == IF k \in DOMAIN d THEN d[k] ELSE default
pop(d, k) == [x \in (DOMAIN d) \ {k} |-> d[x]]
set(d, k, v) == [x \in (DOMAIN d) \cup {k} |-> IF x = k THEN v ELSE d[x]]
bool_any(x) == TRUE
\* truth value of a text
bool(x) == x # 0

\* attribute names of a dict object: its methods, never its keys
dict_attributes == {"get", "pop", "keys", "values", "items", "update",
                    "has_key", "setdefault", "copy", "clear"}
hasattr_keys(d, name) == name \in DOMAIN d
hasattr(d, name) == name \in dict_attributes

(* ---- ckanext.doi.lib and ckanext.doi.model (imported, plugin.py:11-12) ---- *)
rows_of(table, package_id) == {r \in table : r.package_id = package_id}

get_doi(table, package_id) ==
    IF rows_of(table, package_id) = {} THEN None
    ELSE CHOOSE r \in rows_of(table, package_id) : TRUE

\* mint: persist a new unpublished row under a locally-unique identifier
create_unique_identifier(table, package_id, identifier) ==
    table \cup {[package_id |-> package_id, identifier |-> identifier,
                 published |-> Null]}

delete(table, doi) == table \ {doi}

\* register a literal identifier: on success a new unpublished row, else None
record_existing_unique_identifier(table, package_id, identifier, ok) ==
    LET new_doi == [package_id |-> package_id, identifier |-> identifier,
                    published |-> Null]
    IN IF ok /\ ~ \E r \in table : r.identifier = identifier
       THEN [table |-> table \cup {new_doi}, doi |-> new_doi]
       ELSE [table |-> table, doi |-> None]

build_metadata(pkg_dict, doi) ==
    [identifier |-> doi.identifier,
     title |-> get(pkg_dict, "title", 0),
     creator |-> get(pkg_dict, "author", 0),
     created |-> get(pkg_dict, "metadata_created", 0)]

validate_metadata(metadata_dict) ==
    bool(metadata_dict.title) /\ bool(metadata_dict.creator)

\* the rows publish_doi stamps: those of this package and identifier
stamp(table, package_id, identifier) ==
    {IF r.package_id = package_id /\ r.identifier = identifier
     THEN [r EXCEPT !.published = Timestamp] ELSE r : r \in table}

(* ---- outcome of a handler run ---- *)
Outcome(table, sent, pkg_dict, evs, res) ==
    [doi_table |-> table, sent |-> sent, pkg_dict |-> pkg_dict,
     events |-> evs, result |-> res]

Register(identifier) == [op |-> "register_existing", identifier |-> identifier]
Publish(metadata) == [op |-> "publish", metadata |-> metadata]
Update(metadata) == [op |-> "update", metadata |-> metadata]
Flash == [op |-> "flash_success"]
Build(in_table) == [op |-> "build_metadata", doi_in_table |-> in_table]

(***************************************************************************)
(* Each handler fragment below yields the SET of outcomes the code can     *)
(* produce: the Registration Service may accept or refuse a call, and the  *)
(* interpreter may or may not share two equal texts.                       *)
(***************************************************************************)

\* plugin.py:153-156, the unpublished branch
publish_branch(table, sent, package_id, pkg_dict, metadata_dict, evs) ==
    LET evs2 == evs \o <<Flash, Publish(metadata_dict)>>
        hit == \E r \in table : r.package_id = package_id
                                /\ r.identifier = metadata_dict.identifier
    IN {Outcome(table, sent, pkg_dict, evs2, "HTTPError"),
        IF hit
        THEN Outcome(stamp(table, package_id, metadata_dict.identifier),
                     metadata_dict, pkg_dict, evs2, "return")
        ELSE Outcome(table, metadata_dict, pkg_dict, evs2, "AssertionError")}

update_branch_then_publish(table, sent, pkg_dict, orig_pkg_dict, doi, metadata_dict, evs) ==
    LET orig_metadata_dict == build_metadata(orig_pkg_dict, doi)
    IN IF orig_metadata_dict # metadata_dict
       THEN {Outcome(table, metadata_dict, pkg_dict,
                     evs \o <<Update(metadata_dict), Flash, Flash,
                              Publish(metadata_dict)>>, "return"),
             Outcome(table, sent, pkg_dict,
                     evs \o <<Update(metadata_dict)>>, "HTTPError")}
       ELSE {Outcome(table, sent, pkg_dict, evs, "return")}

\* plugin.py:139-149, the published branch
update_branch(table, sent, pkg_dict, orig_pkg_dict, doi, metadata_dict, evs) ==
    LET orig_metadata_dict == build_metadata(orig_pkg_dict, doi)
    IN IF orig_metadata_dict # metadata_dict
       THEN {Outcome(table, metadata_dict, pkg_dict,
                     evs \o <<Update(metadata_dict), Flash>>, "return"),
             Outcome(table, sent, pkg_dict,
                     evs \o <<Update(metadata_dict)>>, "HTTPError")}
       ELSE {Outcome(table, sent, pkg_dict, evs, "return")}

is_visible_any_privacy(pkg_dict) ==
    get(pkg_dict, "state", "active") = "active"

\* plugin.py:128
is_visible(pkg_dict) ==
    get(pkg_dict, "state", "active") = "active" /\ ~ get(pkg_dict, "private", FALSE)

publication_validate_last(table, sent, package_id, pkg_dict, orig_pkg_dict, doi, evs) ==
    IF is_visible(pkg_dict)
    THEN LET evs1 == Append(evs, Build(doi \in table))
         IN IF doi = None
            THEN {Outcome(table, sent, pkg_dict, evs1, "AttributeError")}
            ELSE LET metadata_dict == build_metadata(pkg_dict, doi)
                     outs == IF doi.published # Null
                             THEN update_branch(table, sent, pkg_dict, orig_pkg_dict,
                                                doi, metadata_dict, evs1)
                             ELSE publish_branch(table, sent, package_id, pkg_dict,
                                                 metadata_dict, evs1)
                 IN IF validate_metadata(metadata_dict) THEN outs
                    ELSE {[o EXCEPT !.result = "DOIMetadataException"] : o \in outs}
    ELSE {Outcome(table, sent, pkg_dict, evs, "return")}

\* plugin.py:127-158
publication(table, sent, package_id, pkg_dict, orig_pkg_dict, doi, evs) ==
    IF is_visible(pkg_dict)
    THEN LET evs1 == Append(evs, Build(doi \in table))
         IN IF doi = None
            THEN {Outcome(table, sent, pkg_dict, evs1, "AttributeError")}
            ELSE LET metadata_dict == build_metadata(pkg_dict, doi)
                 IN IF ~ validate_metadata(metadata_dict)
                    THEN {Outcome(table, sent, pkg_dict, evs1, "DOIMetadataException")}
                    ELSE IF doi.published # Null
                    THEN update_branch(table, sent, pkg_dict, orig_pkg_dict, doi,
                                       metadata_dict, evs1)
                    ELSE publish_branch(table, sent, package_id, pkg_dict,
                                        metadata_dict, evs1)
    ELSE {Outcome(table, sent, pkg_dict, evs, "return")}

\* plugin.py:97-103 and 115-118: register the literal identifier, keep the
\* row in hand (doi) when the registration fails
register_branch(table, sent, package_id, pkg_dict, orig_pkg_dict, doi) ==
    UNION {LET rec == record_existing_unique_identifier(
                          table, package_id, pkg_dict.identifier, ok)
           IN publication(rec.table, sent, package_id, pkg_dict, orig_pkg_dict,
                          IF rec.doi # None THEN rec.doi ELSE doi,
                          <<Register(pkg_dict.identifier)>>)
           : ok \in BOOLEAN}

\* `a is not b` on two texts, as the set of answers the interpreter can give:
\* texts of different value are never one object; texts of equal value are
\* one object when b was assigned from a, and otherwise may or may not be
is_not(a, b, assigned) ==
    IF a # b THEN {TRUE} ELSE IF assigned THEN {FALSE} ELSE BOOLEAN

other_branch_keep(table, sent, pkg_dict, doi) ==
    {Outcome(table, sent, pkg_dict, <<>>, "return")}

\* plugin.py:120-125
other_branch(table, sent, pkg_dict, doi) ==
    {Outcome(delete(table, doi), sent, pkg_dict, <<>>, "return")}

\* plugin.py:92-125, then the publication branch
doi_branches(table, sent, package_id, pkg_dict, orig_pkg_dict, doi, assigned) ==
    IF doi = None
    THEN IF bool(pkg_dict.identifier) /\ pkg_dict.identifier_type = "doi"
         THEN register_branch(table, sent, package_id, pkg_dict, orig_pkg_dict, doi)
         ELSE {Outcome(table, sent, pkg_dict, <<>>, "return")}
    ELSE IF bool(pkg_dict.identifier) /\ pkg_dict.identifier_type = "doi"
    THEN UNION {IF differs
                THEN register_branch(delete(table, doi), sent, package_id, pkg_dict,
                                     orig_pkg_dict, doi)
                ELSE publication(table, sent, package_id, pkg_dict, orig_pkg_dict,
                                 doi, <<>>)
                : differs \in is_not(doi.identifier, pkg_dict.identifier, assigned)}
    ELSE IF pkg_dict.identifier_type = "other"
    THEN other_branch(table, sent, pkg_dict, doi)
    ELSE publication(table, sent, package_id, pkg_dict, orig_pkg_dict, doi, <<>>)

\* identifiers create_unique_identifier may mint: those no row uses
free_identifiers(table) == {i \in Identifiers : ~ \E r \in table : r.identifier = i}

auto_create_unguarded(table, sent, package_id, pkg_dict, orig_pkg_dict, doi) ==
    UNION {IF doi = None
           THEN {Outcome(create_unique_identifier(table, package_id, minted), sent,
                         pkg_dict, <<>>, "AttributeError")}
           ELSE doi_branches(create_unique_identifier(table, package_id, minted),
                             sent, package_id,
                             pop(set(set(pkg_dict, "identifier", doi.identifier),
                                     "identifier_type", "doi"), "doi_auto_create"),
                             orig_pkg_dict, doi, TRUE)
           : minted \in free_identifiers(table)}

\* plugin.py:83-90
auto_create(table, sent, package_id, pkg_dict, orig_pkg_dict, doi) ==
    IF doi = None
    THEN \* line 86 drops the row it creates; line 87 then reads None.identifier
         {Outcome(create_unique_identifier(table, package_id, minted), sent,
                  pkg_dict, <<>>, "AttributeError")
          : minted \in free_identifiers(table)}
    ELSE doi_branches(table, sent, package_id,
                      pop(set(set(pkg_dict, "identifier", doi.identifier),
                              "identifier_type", "doi"), "doi_auto_create"),
                      orig_pkg_dict, doi, TRUE)

\* plugin.py:61-158
after_update(table, sent, orig_pkg_dict, pkg_dict0) ==
    LET package_id == pkg_dict0.id
        pkg_dict == set(pkg_dict0, "metadata_created", orig_pkg_dict.metadata_created)
        doi == get_doi(table, package_id)
    IN IF has_key(pkg_dict, "doi_auto_create")
       THEN auto_create(table, sent, package_id, pkg_dict, orig_pkg_dict, doi)
       ELSE doi_branches(table, sent, package_id, pkg_dict, orig_pkg_dict, doi, FALSE)

\* plugin.py:44-57
after_create(table, pkg_dict) ==
    IF hasattr(pkg_dict, "doi_auto_create")
    THEN {Outcome(create_unique_identifier(table, pkg_dict.id, minted), None,
                  pkg_dict, <<>>, "return")
          : minted \in free_identifiers(table)}
    ELSE {Outcome(table, None, pkg_dict, <<>>, "return")}

after_show_unguarded(table, pkg_dict) ==
    LET doi == get_doi(table, pkg_dict.id)
    IN set(set(set(pkg_dict, "doi", get(doi, "identifier", 0)),
               "doi_status", get(doi, "published", Null) # Null),
           "doi_date_published", get(doi, "published", Null))

\* plugin.py:161-170: annotates pkg_dict in place
after_show(table, pkg_dict) ==
    LET doi == get_doi(table, pkg_dict.id)
    IN IF doi # None
       THEN set(set(set(pkg_dict, "doi", doi.identifier),
                    "doi_status", doi.published # Null),
                "doi_date_published", doi.published)
       ELSE pkg_dict

(* ---- inputs ---- *)
NoKeys == [k \in {} |-> 0]
\* the state/private keys of a snapshot: state left out (read as active),
\* active and public, not active, private
Visible == [private |-> FALSE]
Visibilities == {Visible, Visible @@ [state |-> "active"],
                 Visible @@ [state |-> "draft"],
                 [private |-> TRUE, state |-> "active"]}
\* after_create runs before resources are added, so state = draft (plugin.py:47)
NewVisibilities == {[private |-> p, state |-> "draft"] : p \in BOOLEAN}

\* A snapshot either names its identifier itself or asks for a minted one
\* (doi_auto_create); the handlers overwrite the identifier of the latter
\* before they read it, so it is left empty here.
PkgDictsWith(visibilities) ==
    {base @@ vis :
        base \in [id : Datasets, identifier : {0} \cup Identifiers,
                  identifier_type : {"doi", "other"},
                  title : {0} \cup Titles, author : Authors]
             \cup [id : Datasets, identifier : {0},
                   identifier_type : {"doi", "other"},
                   title : {0} \cup Titles, author : Authors,
                   doi_auto_create : {TRUE}],
        vis \in visibilities}
PkgDicts == PkgDictsWith(Visibilities)
NewPkgDicts == PkgDictsWith(NewVisibilities)

\* what the Dataset Store keeps of a saved dataset and package_show returns
saved(pkg_dict) ==
    [id |-> pkg_dict.id, title |-> pkg_dict.title, author |-> pkg_dict.author,
     metadata_created |-> 1]

(* ---- the state machine ---- *)
Init ==
    /\ doi_table = {}
    /\ packages = [p \in Datasets |-> None]
    /\ datacite = [p \in Datasets |-> None]
    /\ call = [handler |-> "none"]
    /\ result = "return"
    /\ returned = None
    /\ events = <<>>

AfterCreate ==
    \E pkg_dict \in NewPkgDicts : \E o \in after_create(doi_table, pkg_dict) :
        /\ doi_table' = o.doi_table
        \* the dataset was stored when it was created; a repeated invocation
        \* for a dataset that exists stores nothing
        /\ packages' = IF packages[pkg_dict.id] = None
                       THEN [packages EXCEPT ![pkg_dict.id] = saved(o.pkg_dict)]
                       ELSE packages
        /\ call' = [handler |-> "after_create", pkg_dict |-> pkg_dict,
                    doi |-> get_doi(doi_table, pkg_dict.id)]
        /\ result' = o.result
        /\ returned' = o.pkg_dict
        /\ events' = o.events
        /\ UNCHANGED datacite

AfterUpdate ==
    \E pkg_dict \in PkgDicts :
        /\ packages[pkg_dict.id] # None
        /\ \E o \in after_update(doi_table, datacite[pkg_dict.id],
                                 packages[pkg_dict.id], pkg_dict) :
              /\ doi_table' = o.doi_table
              /\ datacite' = [datacite EXCEPT ![pkg_dict.id] = o.sent]
              /\ packages' = IF o.result = "return"
                             THEN [packages EXCEPT ![pkg_dict.id] = saved(o.pkg_dict)]
                             ELSE packages
              /\ call' = [handler |-> "after_update", pkg_dict |-> pkg_dict,
                          doi |-> get_doi(doi_table, pkg_dict.id)]
              /\ result' = o.result
              /\ returned' = o.pkg_dict
              /\ events' = o.events

AfterShow ==
    \E package_id \in Datasets :
        /\ packages[package_id] # None
        /\ call' = [handler |-> "after_show", pkg_dict |-> packages[package_id],
                    doi |-> get_doi(doi_table, package_id)]
        /\ result' = "return"
        /\ returned' = after_show(doi_table, packages[package_id])
        /\ events' = <<>>
        /\ UNCHANGED <<doi_table, packages, datacite>>

Next == AfterCreate \/ AfterUpdate \/ AfterShow

Spec == Init /\ [][Next]_vars

(* ---- the most recent invocation, as the claims read it ---- *)
IsCreate == call.handler = "after_create"
IsUpdate == call.handler = "after_update"
\* the rows the dataset of the current invocation has now
rows_now == rows_of(doi_table, call.pkg_dict.id)
\* how many events of one kind the invocation issued
Count(op) == Cardinality({i \in DOMAIN events : events[i].op = op})
wants_auto_create == has_key(call.pkg_dict, "doi_auto_create")
\* the payload the invocation builds from its incoming snapshot and the row it loaded
incoming_metadata ==
    build_metadata(set(call.pkg_dict, "metadata_created", 1), call.doi)
\* the row loaded at the start of the invocation was there / was unpublished / published
had_doi == call.doi # None
had_unpublished == had_doi /\ call.doi.published = Null
had_published == had_doi /\ call.doi.published # Null

(* C1: after any sequence of after_create and after_update calls, the DOI  *)
(* table holds at most one row for every dataset id.                       *)
C1_AtMostOneRecord ==
    \A package_id \in Datasets : Cardinality(rows_of(doi_table, package_id)) <= 1

\* an after_update replaced the row of a dataset by a row under another identifier
C1_Witness ==
    /\ IsUpdate /\ had_doi
    /\ Count("register_existing") = 1
    /\ \E r \in rows_now : r.identifier # call.doi.identifier

(* C2: after_create on a dataset without a DOI row, with doi_auto_create   *)
(* in the snapshot, leaves exactly one row for the dataset, unpublished,   *)
(* and issues no Registration Service call.                                *)
C2_CreateMintsOne ==
    (IsCreate /\ ~ had_doi /\ wants_auto_create)
        => /\ Cardinality(rows_now) = 1
           /\ \A r \in rows_now : r.published = Null
           /\ events = <<>>

C4_PublishOnce ==
    (IsUpdate /\ had_unpublished /\ is_visible(call.pkg_dict)
        /\ validate_metadata(incoming_metadata)
        /\ call.pkg_dict.identifier_type = "doi" /\ result # "HTTPError")
        => /\ Count("publish") = 1
           /\ Count("update") = 0
           /\ \E r \in rows_now : r.published # Null

(* C5: after_update on an active, public dataset whose row is published,   *)
(* with a payload identical to the one the Registration Service last       *)
(* received for it, issues neither update nor publish.                     *)
C5_NoUpdateWhenSame ==
    [][(call'.handler = "after_update"
        /\ call'.doi # None /\ call'.doi.published # Null
        /\ is_visible(call'.pkg_dict)
        /\ datacite[call'.pkg_dict.id]
             = build_metadata(set(call'.pkg_dict, "metadata_created", 1), call'.doi))
       => \A i \in DOMAIN events' : events'[i].op \notin {"update", "publish"}]_vars

(* C6: after_update on an active, public dataset whose row is published,   *)
(* with a title other than the one last published, issues exactly one      *)
(* update carrying the incoming payload and no publish.  Stated here for   *)
(* snapshots of identifier_type 'doi' that pass validation and name no     *)
(* identifier of their own.                                                *)
C6_UpdateOnTitleChange ==
    [][(call'.handler = "after_update"
        /\ call'.doi # None /\ call'.doi.published # Null
        /\ is_visible(call'.pkg_dict)
        /\ bool(call'.pkg_dict.title)
        /\ call'.pkg_dict.identifier_type = "doi"
        /\ ~ bool(call'.pkg_dict.identifier)
        /\ datacite[call'.pkg_dict.id] # None
        /\ datacite[call'.pkg_dict.id].title # call'.pkg_dict.title)
       => /\ Cardinality({i \in DOMAIN events' : events'[i].op = "update"}) = 1
          /\ \A i \in DOMAIN events' :
                /\ events'[i].op # "publish"
                /\ events'[i].op = "update"
                     => events'[i].metadata.title = call'.pkg_dict.title]_vars

(* C7 as written: after_update on a dataset with a DOI row and a snapshot  *)
(* of identifier_type 'other' leaves no row, returns the identifier it was *)
(* given and issues no Registration Service call.                          *)
C7_Original ==
    (IsUpdate /\ had_doi /\ call.pkg_dict.identifier_type = "other")
        => /\ rows_now = {}
           /\ returned.identifier = call.pkg_dict.identifier
           /\ events = <<>>

(* C7 amended: the same, for snapshots without doi_auto_create; the call   *)
(* then also returns normally.                                             *)
C7_OtherDeletes ==
    (IsUpdate /\ had_doi /\ call.pkg_dict.identifier_type = "other"
        /\ ~ wants_auto_create)
        => /\ rows_now = {}
           /\ returned.identifier = call.pkg_dict.identifier
           /\ events = <<>>
           /\ result = "return"

C7_Witness ==
    /\ IsUpdate /\ had_published /\ call.pkg_dict.identifier_type = "other"
    /\ ~ wants_auto_create /\ bool(call.pkg_dict.identifier)
    /\ rows_now = {}

(* C8: after_update with doi_auto_create in the snapshot and no DOI row    *)
(* completes without error, leaves exactly one row, and returns the        *)
(* snapshot with that row's identifier, identifier_type 'doi' and no       *)
(* doi_auto_create key.                                                    *)
C8_UpdateMints ==
    (IsUpdate /\ ~ had_doi /\ wants_auto_create)
        => /\ result = "return"
           /\ Cardinality(rows_now) = 1
           /\ \A r \in rows_now : returned.identifier = r.identifier
           /\ returned.identifier_type = "doi"
           /\ ~ has_key(returned, "doi_auto_create")

(* C9: after_update enters the publication branch (build_metadata and what *)
(* follows) only with a DOI row that is in the table at that moment.       *)
C9_PublicationHasRecord ==
    IsUpdate => \A i \in DOMAIN events :
                    events[i].op = "build_metadata" => events[i].doi_in_table

(* C10 as written: one after_update issues at most one Registration        *)
(* Service call, counting register_existing, publish and update.           *)
C10_Original ==
    IsUpdate => Count("register_existing") + Count("publish") + Count("update") <= 1

(* C10 amended: one after_update issues at most one register_existing and  *)
(* at most one publish or update, so at most two calls.                    *)
C10_AtMostOneOfEach ==
    IsUpdate => /\ Count("register_existing") <= 1
                /\ Count("publish") + Count("update") <= 1

C10_Witness ==
    IsUpdate /\ Count("register_existing") = 1 /\ Count("publish") = 1
             /\ result = "return"

\* the snapshot of the invocation is not externally visible: its state is
\* present and not 'active', or it is private
is_hidden ==
    \/ has_key(call.pkg_dict, "state") /\ call.pkg_dict.state # "active"
    \/ has_key(call.pkg_dict, "private") /\ call.pkg_dict.private

(* C11 as written: after_update with a snapshot that is not externally     *)
(* visible (state present and not 'active', or private) issues no publish  *)
(* and no update, and the published timestamp of the dataset's DOI record  *)
(* is the same after the call as before it.  Stated here for snapshots     *)
(* that name a literal DOI other than the record's.                        *)
C11_Original ==
    (IsUpdate /\ is_hidden /\ had_doi
        /\ call.pkg_dict.identifier_type = "doi"
        /\ bool(call.pkg_dict.identifier)
        /\ call.pkg_dict.identifier # call.doi.identifier)
        => /\ Count("publish") = 0
           /\ Count("update") = 0
           /\ \A r \in rows_now : r.published = call.doi.published

(* C11 amended: such an after_update issues no publish and no update and   *)
(* stamps nothing: every DOI record the dataset has after the call is the  *)
(* record it had before, unchanged, or a record created in the call (by    *)
(* minting or by registering a literal DOI), which is unpublished.         *)
C11_HiddenNotPublished ==
    (IsUpdate /\ is_hidden)
        => /\ Count("publish") = 0
           /\ Count("update") = 0
           /\ \A r \in rows_now : r = call.doi \/ r.published = Null

C11_Witness ==
    /\ IsUpdate /\ had_published /\ result = "return"
    /\ get(call.pkg_dict, "private", FALSE)
    /\ bool(call.pkg_dict.title)
    /\ rows_now = {call.doi}

(* C12 as written: when validation fails inside after_update, no           *)
(* register_existing, publish or update call is issued in that invocation. *)
C12_Original ==
    (IsUpdate /\ result = "DOIMetadataException")
        => /\ Count("register_existing") = 0
           /\ Count("publish") = 0
           /\ Count("update") = 0

(* C12 amended: when validation fails inside after_update, no publish and  *)
(* no update call is issued in that invocation; a register_existing call   *)
(* may have been made before the failure.                                  *)
C12_ValidationBeforeSend ==
    (IsUpdate /\ result = "DOIMetadataException")
        => /\ Count("publish") = 0
           /\ Count("update") = 0

C12_Witness ==
    /\ IsUpdate /\ result = "DOIMetadataException"
    /\ Count("register_existing") = 1

(* C13: whenever after_update returns normally and the returned snapshot   *)
(* has identifier_type 'doi' and a non-empty identifier, the dataset has a *)
(* DOI record under that identifier.                                       *)
C13_DoiTypeHasRecord ==
    (IsUpdate /\ result = "return"
        /\ returned.identifier_type = "doi" /\ returned.identifier # 0)
        => \E r \in rows_now : r.identifier = returned.identifier

(* C14: after_show reads only: the dataset has the DOI record it had       *)
(* before the call, unchanged, or none as before; no Registration Service  *)
(* call or notification is issued; the snapshot comes back as it was,      *)
(* with the doi keys added when, and only when, a record exists.           *)
IsShow == call.handler = "after_show"
C14_ShowReadsOnly ==
    IsShow
        => /\ rows_now = (IF had_doi THEN {call.doi} ELSE {})
           /\ events = <<>>
           /\ result = "return"
           /\ \A k \in DOMAIN call.pkg_dict : returned[k] = call.pkg_dict[k]
           /\ IF had_doi
              THEN /\ returned.doi = call.doi.identifier
                   /\ returned.doi_status = (call.doi.published # Null)
              ELSE returned = call.pkg_dict

C14_Witness == IsShow /\ had_published /\ returned.doi_status

(* C15: after_update on a dataset without a DOI record, with a snapshot    *)
(* that names no DOI (no doi_auto_create; identifier empty or              *)
(* identifier_type not 'doi'), returns normally, leaves the dataset        *)
(* without a record, issues no Registration Service call and returns       *)
(* identifier and identifier_type as given.                                *)
C15_NoDoiNamed ==
    (IsUpdate /\ ~ had_doi /\ ~ wants_auto_create
        /\ (call.pkg_dict.identifier = 0 \/ call.pkg_dict.identifier_type # "doi"))
        => /\ result = "return"
           /\ rows_now = {}
           /\ events = <<>>
           /\ returned.identifier = call.pkg_dict.identifier
           /\ returned.identifier_type = call.pkg_dict.identifier_type

C15_Witness ==
    /\ IsUpdate /\ ~ had_doi /\ ~ wants_auto_create
    /\ call.pkg_dict.identifier = 0 /\ call.pkg_dict.identifier_type = "doi"
    /\ is_visible(call.pkg_dict)
    /\ result = "return" /\ rows_now = {}

(* C16: the scenario, its first two steps: after_create of a dataset with  *)
(* doi_auto_create leaves it an unpublished DOI record; when the next call *)
(* is an after_update of it with an active, public, valid snapshot that    *)
(* the Registration Service accepts, that call issues exactly one publish  *)
(* and leaves the record published.                                        *)
C16_Scenario ==
    [][/\ (call'.handler = "after_create" /\ call'.doi = None
            /\ has_key(call'.pkg_dict, "doi_auto_create"))
          => \E r \in doi_table' : /\ r.package_id = call'.pkg_dict.id
                                   /\ r.published = Null
       /\ (call.handler = "after_create" /\ call.doi = None
            /\ has_key(call.pkg_dict, "doi_auto_create")
            /\ call'.handler = "after_update"
            /\ call'.pkg_dict.id = call.pkg_dict.id
            /\ is_visible(call'.pkg_dict)
            /\ call'.pkg_dict.title # 0
            /\ result' # "HTTPError")
          => /\ Cardinality({i \in DOMAIN events' : events'[i].op = "publish"}) = 1
             /\ \E r \in doi_table' : /\ r.package_id = call'.pkg_dict.id
                                      /\ r.published # Null]_vars

(* C17: after_update on a dataset with a DOI record, with a snapshot of    *)
(* identifier_type 'doi' whose identifier equals the record's in value,    *)
(* does not delete the record and does not call register_existing: the     *)
(* dataset keeps a record under that identifier.                           *)
C17_SameIdentifierKept ==
    (IsUpdate /\ had_doi /\ call.pkg_dict.identifier_type = "doi"
        /\ call.pkg_dict.identifier = call.doi.identifier)
        => /\ Count("register_existing") = 0
           /\ \E r \in rows_now : r.identifier = call.doi.identifier

(* C18: whenever the most recent after_update returned normally for an     *)
(* active, public snapshot and the dataset's DOI record is published, the  *)
(* metadata the Registration Service last received for the dataset is the  *)
(* metadata built from that snapshot.                                      *)
C18_RegisteredMetadataCurrent ==
    (IsUpdate /\ result = "return" /\ is_visible(call.pkg_dict))
        => \A r \in rows_now :
              r.published # Null
                  => datacite[call.pkg_dict.id] = build_metadata(returned, r)

(* C19: in every after_update a success notification follows a publish or  *)
(* update call of the same invocation that returned without error; when    *)
(* that call raises, no success notification has been emitted.             *)
C19_FlashAfterSuccess ==
    IsUpdate
        => /\ \A i \in DOMAIN events :
                 events[i].op = "flash_success"
                     => \E j \in 1..(i - 1) : events[j].op \in {"publish", "update"}
           /\ result = "HTTPError" => Count("flash_success") = 0

====
